---- MODULE Spec2Model ----
(***************************************************************************)
(* Verification model of telltale's diagnostic engine                      *)
(* (telltale/core/diagnostic.py) and truth table (core/truth_table.py).    *)
(*                                                                         *)
(* The graph lives in the Neo4j store and is read-only for the core: it is *)
(* chosen in Init and never changes.  DiagnosticEngine.diagnose is one     *)
(* Cypher query; every clause of the query is one definition below.        *)
(* Sensor values and thresholds are integers counting tenths (0.1), so     *)
(* that threshold - 0.1, threshold and threshold + 0.1 are t-1, t, t+1.    *)
(* Cypher lists whose order the query leaves undefined (collect) are sets; *)
(* the list diagnose returns is a sequence.  Rows that ORDER BY leaves     *)
(* equal come in the order the store finds their nodes, which is any order *)
(* but the same one for every query on the same graph.                     *)
(*                                                                         *)
(* Spec runs diagnose over every small graph, SpecUnvalidated over graphs  *)
(* with sensor edges nothing validated; SpecTT, SpecBatch and SpecRaise    *)
(* run the truth table over the graph of test_battery_and_speaker_graph;   *)
(* SpecGen runs scan_graph and generate_test_cases.                        *)
(***************************************************************************)
EXTENDS Integers, Sequences, FiniteSets, TLC

\* ---------------------------------------------------------------- bounds
\* largest sensor value an input carries (values are 0..MaxReading)
MaxReading == 2
\* largest number of EVIDENCE_FOR edges in the graph
MaxEdges == 2
\* largest number of register_expected_outcome calls
MaxRegistered == 2

\* ------------------------------------------------------- node universes
FailureModes == {"F", "G"}
Observations == {"o1", "o2"}
Sensors == {"s1"}
Readings == 0..MaxReading
Thresholds == {1}

\* models.py EvidenceStrength
Strengths == {"confirms", "rules_out", "suggests", "suggests_against", "inconclusive"}
\* models.py ComparisonOperator
Operators == {"=", "<", ">", "<=", ">=", "in"}
\* Cypher null (a property an edge does not carry, a CASE without a match)
NULL == "null"

\* ------------------------------------------------------------ the graph
\* CAUSES edges (FailureMode)-[:CAUSES]->(Observation)
CausesLinks == [fm : FailureModes, obs : {"o1"}]

\* EVIDENCE_FOR edges sourced at an Observation: no operator, no threshold
\* (threshold 0 stands for the absent property; it is never read).
ObservationEvidenceLinks ==
    [src : Observations, kind : {"observation"}, tgt : FailureModes,
     when_true_strength : Strengths,
     when_false_strength : {"rules_out"},
     operator : {NULL}, threshold : {0}]

\* EVIDENCE_FOR edges sourced at a SensorReading: they target F, the failure
\* mode the sensor measures.  For "in" the threshold property is the
\* one-element list [threshold].
SensorEvidenceLinks ==
    [src : Sensors, kind : {"sensor"}, tgt : {"F"},
     when_true_strength : {"confirms", "suggests"},
     when_false_strength : {"rules_out", "suggests_against"},
     operator : Operators, threshold : Thresholds]

EvidenceLinks == ObservationEvidenceLinks \cup SensorEvidenceLinks

\* the graphs the recommendations are asked over: each failure mode may cause
\* each observation, and a sensor may have edges to both failure modes with
\* different thresholds and strengths (as switch_status has in example_data)
RecommendationCausesLinks == [fm : FailureModes, obs : Observations]

RecommendationEvidenceLinks ==
    [src : Observations, kind : {"observation"}, tgt : FailureModes,
     when_true_strength : {"confirms", "rules_out"},
     when_false_strength : {"inconclusive"},
     operator : {NULL}, threshold : {0}]
    \cup
    {[src |-> "s1", kind |-> "sensor", tgt |-> x[1], when_true_strength |-> x[2],
      when_false_strength |-> "rules_out", operator |-> "<", threshold |-> x[3]] :
        x \in {<<"F", "confirms", 1>>, <<"G", "confirms", 1>>,
                <<"G", "suggests", 1>>, <<"G", "confirms", 2>>}}

\* the sets of at most n of these edges
RECURSIVE RecommendationEdgeSets(_)
RecommendationEdgeSets(n) ==
    IF n = 0 THEN {{}}
    ELSE LET smaller == RecommendationEdgeSets(n - 1)
         IN  smaller \cup {s \cup {e} : s \in smaller, e \in RecommendationEvidenceLinks}

\* EVIDENCE_FOR edges sourced at a SensorReading that nothing validates:
\* EvidenceProperties makes operator and threshold optional, and a store
\* written with Cypher holds any operator string
UnvalidatedEvidenceLinks ==
    {[src |-> "s1", kind |-> "sensor", tgt |-> "F", when_true_strength |-> "confirms",
      when_false_strength |-> "rules_out", operator |-> "!=", threshold |-> 1],
     [src |-> "s1", kind |-> "sensor", tgt |-> "F", when_true_strength |-> "confirms",
      when_false_strength |-> "rules_out", operator |-> NULL, threshold |-> 0]}

\* the sets of at most n evidence edges
RECURSIVE EdgeSets(_)
EdgeSets(n) ==
    IF n = 0 THEN {{}}
    ELSE LET smaller == EdgeSets(n - 1)
         IN  smaller \cup {s \cup {e} : s \in smaller, e \in EvidenceLinks}

\* the Observation nodes a graph's edges start from or end at (a node without
\* an edge is met by no MATCH of the diagnostic engine)
ObservationNames(cs, es) ==
    {c.obs : c \in cs} \cup {e.src : e \in {x \in es : x.kind = "observation"}}

\* the orders in which a store may find the FailureMode nodes
DiscoveryOrders ==
    {q \in [1..Cardinality(FailureModes) -> FailureModes] :
        \A i, j \in DOMAIN q : i # j => q[i] # q[j]}

\* diagnose's sensor_readings argument: a dict sensor name -> value
SensorReadingMaps == UNION {[D -> Readings] : D \in SUBSET Sensors}

VARIABLES
    causes,             \* the CAUSES edges of the store
    evidence,           \* the EVIDENCE_FOR edges of the store
    observation_nodes,  \* the names of the Observation nodes of the store
    discovery_order,    \* the order in which the store finds the FailureMode
                        \* nodes (a list without repetition)
    observations,       \* the observations argument (as a set),
    sensor_readings,    \* the sensor_readings argument and
    diagnostic_results, \* the returned list of the last diagnose call that
                        \* the caller or run_test_case made
    expected_outcomes,  \* TruthTable.expected_outcomes, the registry (a list)
    truth_table_result, \* the TruthTableResult run_test_case returned
    tt_observations,    \* TruthTable.observations, the scanned observation names
    tt_sensor_readings, \* TruthTable.sensor_readings: sensor name -> thresholds
    generate_args,      \* the arguments of the last generate_test_cases call
    test_cases,         \* the list generate_test_cases returned
    truth_table_results,\* the list run_truth_table returned
    raised_at,          \* the case of the run_truth_table call whose diagnosis
                        \* raised (its index in the list), 0 when none did
    test_recommendations,   \* the list get_test_recommendations returned
    explained_failure_mode, \* the failure_mode argument of explain_diagnosis
    explanation_evidence,   \* the list explain_diagnosis returned
    explanation_text,       \* the text explain_diagnosis_text returned (its lines)
    format_args,            \* the only_surprises and format arguments and
    formatted,              \* the returned text of the last format_results call
    pc                  \* "idle", or what the last call did: "diagnosed",
                        \* "ran" (run_test_case), "generated", "batch"
                        \* (run_truth_table returned), "raised" (it raised),
                        \* "recommended", "explained", "formatted"

\* the store, which no operation of the core writes
store == <<causes, evidence, observation_nodes, discovery_order>>

\* what the recommendation, explanation and formatting calls hand back
reports == <<test_recommendations, explained_failure_mode, explanation_evidence,
             explanation_text, format_args, formatted>>

vars == <<causes, evidence, observation_nodes, discovery_order, observations,
          sensor_readings, diagnostic_results, expected_outcomes,
          truth_table_result, tt_observations, tt_sensor_readings,
          generate_args, test_cases, truth_table_results, raised_at,
          test_recommendations, explained_failure_mode, explanation_evidence,
          explanation_text, format_args, formatted, pc>>

\* ------------------------------------------------- diagnose (the query)
\* faulty variant: the EXISTS subquery without its WHERE o.name IN $observations
CandidateFailureModes_AnyCause(obs) ==
    {fm \in FailureModes : \E c \in causes : c.fm = fm}

\* MATCH (fm:FailureMode) WHERE EXISTS { (fm)-[:CAUSES]->(o) WHERE o.name IN $observations }
CandidateFailureModes(obs) ==
    {fm \in FailureModes : \E c \in causes : c.fm = fm /\ c.obs \in obs}

\* faulty variant: the observation match without its WHERE o.name IN $observations
observation_evidence_Unfiltered(fm, obs) ==
    {e \in evidence : e.kind = "observation" /\ e.tgt = fm}

\* OPTIONAL MATCH (o:Observation)-[e:EVIDENCE_FOR]->(fm) WHERE o.name IN $observations
observation_evidence(fm, obs) ==
    {e \in evidence : e.kind = "observation" /\ e.tgt = fm /\ e.src \in obs}

\* OPTIONAL MATCH (s:SensorReading)-[e:EVIDENCE_FOR]->(fm) WHERE s.name IN $sensor_names
sensor_evidence(fm, readings) ==
    {e \in evidence : e.kind = "sensor" /\ e.tgt = fm /\ e.src \in DOMAIN readings}

\* observation_evidence + sensor_evidence, UNWIND, WHERE evidence.name IS NOT NULL:
\* the rows of fm, one per matched edge (the placeholder rows of an OPTIONAL
\* MATCH without a match have a null name and are dropped).
all_evidence(fm, obs, readings) ==
    observation_evidence(fm, obs) \cup sensor_evidence(fm, readings)

\* CASE ... END as effective_strength
effective_strength(e, readings) ==
    IF e.kind = "sensor"
    THEN IF e.operator = "<" /\ readings[e.src] < e.threshold THEN e.when_true_strength
         ELSE IF e.operator = ">" /\ readings[e.src] > e.threshold THEN e.when_true_strength
         ELSE IF e.operator = "=" /\ readings[e.src] = e.threshold THEN e.when_true_strength
         ELSE NULL
    ELSE e.when_true_strength

\* CASE ... END as contradicting_flag
contradicting_flag(e, readings) ==
    IF e.kind = "sensor"
    THEN IF e.operator = "<" /\ readings[e.src] >= e.threshold THEN "contradicting"
         ELSE IF e.operator = ">" /\ readings[e.src] <= e.threshold THEN "contradicting"
         ELSE IF e.operator = "=" /\ readings[e.src] # e.threshold THEN "contradicting"
         ELSE NULL
    ELSE NULL

\* CASE ... END as when_false_strength_value
when_false_strength_value(e, readings) ==
    IF e.kind = "sensor"
    THEN IF e.operator = "<" /\ readings[e.src] >= e.threshold THEN e.when_false_strength
         ELSE IF e.operator = ">" /\ readings[e.src] <= e.threshold THEN e.when_false_strength
         ELSE IF e.operator = "=" /\ readings[e.src] # e.threshold THEN e.when_false_strength
         ELSE NULL
    ELSE NULL

\* collect(evidence_name) as supporting_evidence: the name of every row
supporting_evidence(rows) == {e.src : e \in rows}

\* collect(effective_strength) as strengths (collect skips nulls)
strengths(rows, readings) ==
    {effective_strength(e, readings) : e \in rows} \ {NULL}

\* collect(when_false_strength_value) as false_strengths (collect skips nulls)
false_strengths(rows, readings) ==
    {when_false_strength_value(e, readings) : e \in rows} \ {NULL}

\* [item IN evidence_items WHERE item.contradicting = 'contradicting' | item.name]
contradicting_evidence(rows, readings) ==
    {e.src : e \in {x \in rows : contradicting_flag(x, readings) = "contradicting"}}

\* 'rules_out' IN false_strengths as is_ruled_out
is_ruled_out(rows, readings) == "rules_out" \in false_strengths(rows, readings)

\* CASE ... END as confidence
confidence(rows, readings) ==
    IF is_ruled_out(rows, readings) THEN "rules_out"
    ELSE IF contradicting_evidence(rows, readings) # {} THEN "inconclusive"
    ELSE IF "confirms" \in strengths(rows, readings) THEN "confirms"
    ELSE IF "suggests" \in strengths(rows, readings) THEN "suggests"
    ELSE IF "suggests_against" \in strengths(rows, readings) THEN "suggests_against"
    ELSE IF "rules_out" \in strengths(rows, readings) THEN "rules_out"
    ELSE "inconclusive"

\* a failure mode reaches RETURN when it has at least one row (UNWIND drops a
\* failure mode without rows) and passes WHERE confidence <> 'rules_out'
IsReturned(rows, readings) ==
    /\ rows # {}
    /\ confidence(rows, readings) # "rules_out"

\* the failure modes of the rows the query returns
ReturnedFailureModes(obs, readings) ==
    {fm \in CandidateFailureModes(obs) :
        IsReturned(all_evidence(fm, obs, readings), readings)}

\* faulty variant: every sensor of the input is listed as supporting
DiagnosticResult_EverySensor(fm, rows, readings) ==
    [failure_mode |-> fm,
     confidence |-> confidence(rows, readings),
     supporting_evidence |-> supporting_evidence(rows) \cup DOMAIN readings,
     contradicting_evidence |-> contradicting_evidence(rows, readings)]

\* RETURN fm.name as failure_mode, confidence, supporting_evidence, contradicting_evidence
DiagnosticResult(fm, rows, readings) ==
    [failure_mode |-> fm,
     confidence |-> confidence(rows, readings),
     supporting_evidence |-> supporting_evidence(rows),
     contradicting_evidence |-> contradicting_evidence(rows, readings)]

\* ORDER BY CASE confidence WHEN 'confirms' THEN 0 ... END
ConfidenceRank(c) ==
    CASE c = "confirms" -> 0
      [] c = "suggests" -> 1
      [] c = "suggests_against" -> 2
      [] c = "inconclusive" -> 3

\* faulty variant: ORDER BY ... DESC
IsOrdered_Descending(rows) ==
    \A i, j \in 1..Len(rows) :
        i < j => ConfidenceRank(rows[i].confidence) >= ConfidenceRank(rows[j].confidence)

\* ORDER BY: ascending in the rank of the confidence
IsOrdered(rows) ==
    \A i, j \in 1..Len(rows) :
        i < j => ConfidenceRank(rows[i].confidence) <= ConfidenceRank(rows[j].confidence)

\* the place of fm in the order the store finds the FailureMode nodes
DiscoveryIndex(fm) == CHOOSE i \in DOMAIN discovery_order : discovery_order[i] = fm

\* ORDER BY has no second key: rows with equal confidence stay in the order
\* the MATCH found them, which the store fixes as long as the graph is the same
KeepsDiscoveryOrder(rows) ==
    \A i, j \in 1..Len(rows) :
        (i < j /\ ConfidenceRank(rows[i].confidence) = ConfidenceRank(rows[j].confidence))
            => DiscoveryIndex(rows[i].failure_mode) < DiscoveryIndex(rows[j].failure_mode)

\* the list the query returns (a set, empty never, of one list): the returned
\* rows in the order ORDER BY and the store give them
DiagnoseOutputs(obs, readings) ==
    LET fms == ReturnedFailureModes(obs, readings)
        n == Cardinality(fms)
        rowsOf(p) == [i \in 1..n |->
                        DiagnosticResult(p[i], all_evidence(p[i], obs, readings), readings)]
    IN  {rowsOf(p) : p \in {q \in [1..n -> fms] :
                               /\ \A i, j \in 1..n : i # j => q[i] # q[j]
                               /\ IsOrdered(rowsOf(q))
                               /\ KeepsDiscoveryOrder(rowsOf(q))}}

\* e.threshold: null on an edge that carries no threshold property (the edges
\* without operator)
threshold_property(e) == IF e.operator = NULL THEN NULL ELSE e.threshold

\* ---------------------------------------- explain_diagnosis (the query)
\* The edges of the model carry no name and no rationale property, so that
\* every explanation is the sentence the query builds.

\* OPTIONAL MATCH (o:Observation)-[e:EVIDENCE_FOR]->(fm) WHERE o.name IN $observations
explained_observation_evidence(fm, obs) ==
    {e \in evidence : e.kind = "observation" /\ e.tgt = fm /\ e.src \in obs}

\* OPTIONAL MATCH (s:SensorReading)-[e:EVIDENCE_FOR]->(fm) WHERE s.name IN $sensor_names
explained_sensor_evidence(fm, readings) ==
    {e \in evidence : e.kind = "sensor" /\ e.tgt = fm /\ e.src \in DOMAIN readings}

\* strength: e.when_true_strength of an observation edge, CASE ... END of a
\* sensor edge
explained_strength(e, readings) ==
    IF e.kind = "observation" THEN e.when_true_strength
    ELSE IF e.operator = "<" /\ readings[e.src] < e.threshold THEN e.when_true_strength
    ELSE IF e.operator = ">" /\ readings[e.src] > e.threshold THEN e.when_true_strength
    ELSE IF e.operator = "=" /\ readings[e.src] = e.threshold THEN e.when_true_strength
    ELSE IF e.operator = "<" /\ readings[e.src] >= e.threshold THEN e.when_false_strength
    ELSE IF e.operator = ">" /\ readings[e.src] <= e.threshold THEN e.when_false_strength
    ELSE IF e.operator = "=" /\ readings[e.src] # e.threshold THEN e.when_false_strength
    ELSE NULL

\* for_or_against: 'for' of an observation edge, CASE ... END of a sensor edge
for_or_against(e, readings) ==
    IF e.kind = "observation" THEN "for"
    ELSE IF e.operator = "<" /\ readings[e.src] < e.threshold THEN "for"
    ELSE IF e.operator = ">" /\ readings[e.src] > e.threshold THEN "for"
    ELSE IF e.operator = "=" /\ readings[e.src] = e.threshold THEN "for"
    ELSE IF e.operator = "<" /\ readings[e.src] >= e.threshold THEN "against"
    ELSE IF e.operator = ">" /\ readings[e.src] <= e.threshold THEN "against"
    ELSE IF e.operator = "=" /\ readings[e.src] # e.threshold THEN "against"
    ELSE NULL

\* explanation: the sentence about the edge (its words and what it names)
explanation(e, readings) ==
    IF e.kind = "observation"
    THEN [subject |-> e.src, says |-> "is evidence for", object |-> e.tgt]
    ELSE [subject |-> e.src, reading |-> readings[e.src],
          says |-> IF e.operator = "<" /\ readings[e.src] < e.threshold
                       THEN "is less than threshold"
                   ELSE IF e.operator = ">" /\ readings[e.src] > e.threshold
                       THEN "is greater than threshold"
                   ELSE IF e.operator = "=" /\ readings[e.src] = e.threshold
                       THEN "equals threshold"
                   ELSE IF e.operator = "<" /\ readings[e.src] >= e.threshold
                       THEN "is NOT less than threshold"
                   ELSE IF e.operator = ">" /\ readings[e.src] <= e.threshold
                       THEN "is NOT greater than threshold"
                   ELSE IF e.operator = "=" /\ readings[e.src] # e.threshold
                       THEN "does NOT equal threshold"
                   ELSE NULL,
          threshold |-> e.threshold]

\* ExplanationEvidence(...) of one row
ExplanationEvidence(e, readings) ==
    [name |-> e.src,
     type |-> IF e.kind = "observation" THEN "observation" ELSE "sensor_reading",
     operator |-> e.operator,
     threshold |-> threshold_property(e),
     actual_value |-> IF e.kind = "observation" THEN TRUE ELSE readings[e.src],
     strength |-> explained_strength(e, readings),
     for_or_against |-> for_or_against(e, readings),
     explanation |-> explanation(e, readings)]

\* UNWIND all_evidence ... WHERE evidence.strength IS NOT NULL: the rows that
\* are returned (the placeholder of an OPTIONAL MATCH without a match has a
\* null strength too)
explained_rows(rows, readings) ==
    {e \in rows : explained_strength(e, readings) # NULL}

\* the list explain_diagnosis returns when the rows of the observations come
\* in the order obs_order and those of the sensors in the order sensor_order
\* (observation_evidence + sensor_evidence)
explain_diagnosis(obs_order, sensor_order, readings) ==
    [i \in DOMAIN obs_order |-> ExplanationEvidence(obs_order[i], readings)]
    \o [i \in DOMAIN sensor_order |-> ExplanationEvidence(sensor_order[i], readings)]

\* get_causal_paths: MATCH path = (fm {name: $failure_mode})-[:CAUSES*]->(o)
\* WHERE o.name IN $observations; CAUSES edges end at observations, so every
\* path is one edge and has no intermediate node
get_causal_paths(fm, obs) ==
    {[failure_mode |-> c.fm, observation |-> c.obs, intermediate_nodes |-> <<>>] :
        c \in {x \in causes : x.fm = fm /\ x.obs \in obs}}

\* ------------------------------------------------ explain_diagnosis_text
\* The text is modelled as its lines; a line is a tuple that starts with the
\* words of the line.

\* for e in group: explanation += f"- {e.explanation}\n", for the records of
\* the polarity and strength
group_lines(evidence_list, polarity, strength) ==
    LET in_group(e) == e.for_or_against = polarity /\ e.strength = strength
        group == SelectSeq(evidence_list, in_group)
    IN  [i \in DOMAIN group |-> <<"-", group[i].explanation>>]

\* a group with its heading, nothing when the group is empty
headed_group(heading, evidence_list, polarity, strength) ==
    LET lines == group_lines(evidence_list, polarity, strength)
    IN  IF lines = <<>> THEN <<>> ELSE << <<heading>> >> \o lines

\* the section of the supporting evidence
supporting_section(evidence_list) ==
    LET is_for(e) == e.for_or_against = "for"
    IN  IF SelectSeq(evidence_list, is_for) # <<>>
        THEN << <<"Evidence supporting this diagnosis:">> >>
             \o headed_group("Strong confirmations:", evidence_list, "for", "confirms")
             \o headed_group("Suggestive evidence:", evidence_list, "for", "suggests")
        ELSE << <<"No evidence was found supporting this diagnosis.">> >>

\* the section of the contradicting evidence
contradicting_section(evidence_list) ==
    LET is_against(e) == e.for_or_against = "against"
    IN  IF SelectSeq(evidence_list, is_against) # <<>>
        THEN << <<"Evidence contradicting this diagnosis:">> >>
             \o headed_group("Strong contradictions:", evidence_list, "against", "rules_out")
             \o headed_group("Mild contradictions:", evidence_list, "against",
                             "suggests_against")
        ELSE << <<"No evidence was found contradicting this diagnosis.">> >>

\* the causal-path listing, nothing without a path
RECURSIVE path_lines(_, _)
path_lines(causal_paths, i) ==
    IF i > Len(causal_paths) THEN <<>>
    ELSE << <<"Path", i>>,
            <<"-", causal_paths[i].failure_mode, "CAUSES", causal_paths[i].observation>> >>
         \o path_lines(causal_paths, i + 1)

causal_section(causal_paths) ==
    IF causal_paths = <<>> THEN <<>>
    ELSE << <<"Causal links from this failure mode to the observed symptoms:">> >>
         \o path_lines(causal_paths, 1)

\* the text explain_diagnosis_text returns for the list explain_diagnosis
\* gave it and the paths get_causal_paths gave it
explain_diagnosis_text(failure_mode, evidence_list, causal_paths) ==
    IF evidence_list = <<>>
    THEN << <<"No evidence was found to explain the diagnosis of", failure_mode>> >>
    ELSE << <<"Explanation for diagnosis:", failure_mode>> >>
         \o supporting_section(evidence_list)
         \o contradicting_section(evidence_list)
         \o causal_section(causal_paths)

\* ------------------------------- get_test_recommendations (the query)
\* faulty variant: a failure mode is a candidate only when it causes every
\* observation of the input
RecommendationCandidates_CausesAll(obs) ==
    {fm \in FailureModes :
        /\ \E c \in causes : c.fm = fm /\ c.obs \in obs
        /\ \A o \in obs : \E c \in causes : c.fm = fm /\ c.obs = o}

\* MATCH (fm:FailureMode) WHERE EXISTS { (fm)-[:CAUSES]->(o) WHERE o.name IN $observations }
RecommendationCandidates(obs) ==
    {fm \in FailureModes : \E c \in causes : c.fm = fm /\ c.obs \in obs}

\* MATCH (ev)-[e:EVIDENCE_FOR]->(fm) WHERE NOT ev.name IN $observations
\*     AND (ev:Observation OR ev:SensorReading)
recommendation_rows(obs) ==
    {e \in evidence : e.tgt \in RecommendationCandidates(obs) /\ e.src \notin obs}

\* WITH ev, CASE ... END as type, e.operator as operator, e.threshold as
\* threshold, e.when_true_strength as strength_if_true: the grouping key of
\* the aggregation collect(DISTINCT fm.name)
recommendation_key(e) ==
    [name |-> e.src,
     type |-> IF e.kind = "observation" THEN "observation" ELSE "sensor_reading",
     operator |-> e.operator,
     threshold |-> threshold_property(e),
     strength_if_true |-> e.when_true_strength]

\* RETURN ...: one TestRecommendation per grouping key, with
\* collect(DISTINCT fm.name) as would_help_with
TestRecommendation(key, rows) ==
    [name |-> key.name,
     type |-> key.type,
     strength_if_true |-> key.strength_if_true,
     would_help_with |-> {e.tgt : e \in {x \in rows : recommendation_key(x) = key}},
     operator |-> key.operator,
     threshold |-> key.threshold]

\* faulty variant: ORDER BY size(would_help_with) without DESC
IsRanked_Ascending(recs) ==
    \A i, j \in 1..Len(recs) :
        i < j => Cardinality(recs[i].would_help_with) <= Cardinality(recs[j].would_help_with)

\* ORDER BY size(would_help_with) DESC
IsRanked(recs) ==
    \A i, j \in 1..Len(recs) :
        i < j => Cardinality(recs[i].would_help_with) >= Cardinality(recs[j].would_help_with)

\* the lists the query may return: the records of all grouping keys in an
\* order ORDER BY allows (records of equal size come in the store's order)
RecommendationOutputs(obs) ==
    LET rows == recommendation_rows(obs)
        recs == {TestRecommendation(recommendation_key(e), rows) : e \in rows}
    IN  {q \in [1..Cardinality(recs) -> recs] :
            /\ \A i, j \in DOMAIN q : i # j => q[i] # q[j]
            /\ IsRanked(q)}

\* ------------------------------------------------------------ truth table
Range(seq) == {seq[i] : i \in DOMAIN seq}

\* the graph of test_battery_and_speaker_graph: Dead Battery is F, Speaker
\* Broken is G, No Sound is o1, Buzz or Hiss is o2, battery_voltage is s1
ExampleCauses ==
    {[fm |-> "F", obs |-> "o1"], [fm |-> "G", obs |-> "o1"], [fm |-> "G", obs |-> "o2"]}

ExampleEvidence ==
    {[src |-> "o1", kind |-> "observation", tgt |-> "F", when_true_strength |-> "suggests",
      when_false_strength |-> "rules_out", operator |-> NULL, threshold |-> 0],
     [src |-> "o1", kind |-> "observation", tgt |-> "G", when_true_strength |-> "suggests",
      when_false_strength |-> "rules_out", operator |-> NULL, threshold |-> 0],
     [src |-> "o2", kind |-> "observation", tgt |-> "G", when_true_strength |-> "confirms",
      when_false_strength |-> "inconclusive", operator |-> NULL, threshold |-> 0],
     [src |-> "s1", kind |-> "sensor", tgt |-> "F", when_true_strength |-> "confirms",
      when_false_strength |-> "rules_out", operator |-> "<", threshold |-> 1]}

\* a test case's observations are a Python list
ObservationLists == {<<>>, <<"o1">>, <<"o2">>, <<"o1", "o2">>, <<"o2", "o1">>}

\* the cases run_test_case is given: {"observations": [...], "sensor_values": {...}}
TestCaseInputs == [observations : ObservationLists, sensor_values : SensorReadingMaps]

\* the expected lists (of ExpectedOutcome(failure_mode, confidence)) that get
\* registered: none, one outcome, or both failure
\* modes
ExpectedLists ==
    {<<>>,
     <<[failure_mode |-> "F", confidence |-> "suggests"]>>,
     <<[failure_mode |-> "G", confidence |-> "suggests"]>>,
     <<[failure_mode |-> "G", confidence |-> "confirms"]>>,
     <<[failure_mode |-> "F", confidence |-> "suggests"],
       [failure_mode |-> "G", confidence |-> "suggests"]>>}

\* the inputs expectations are registered for
RegisteredInputs ==
    {[observations |-> <<"o1">>, sensor_values |-> <<>>],
     [observations |-> <<"o1">>, sensor_values |-> [s \in Sensors |-> 1]],
     [observations |-> <<"o2", "o1">>, sensor_values |-> [s \in Sensors |-> 1]]}

\* TestCase(inputs, expected)
TestCases == [inputs : RegisteredInputs, expected : ExpectedLists]

\* format_results before any call
NoFormat == [only_surprises |-> FALSE, format |-> "text"]

\* TruthTableResult before any run
NoResult ==
    [inputs |-> [observations |-> <<>>, sensor_values |-> <<>>],
     diagnosed_failure_modes |-> <<>>,
     expected_failure_modes |-> <<>>,
     unexpected_results |-> <<>>,
     missing_results |-> <<>>,
     has_surprise |-> FALSE]

\* actual_results: {"failure_mode": d.failure_mode, "confidence": d.confidence.value}
actual_results(diagnoses) ==
    [i \in DOMAIN diagnoses |->
        [failure_mode |-> diagnoses[i].failure_mode,
         confidence |-> diagnoses[i].confidence]]

\* faulty variant: the observation lists are compared as lists
Matches_Ordered(expected, test_case) ==
    /\ expected.inputs.observations = test_case.observations
    /\ expected.inputs.sensor_values = test_case.sensor_values

\* the condition of the registry loop: set(...) == set(...) and dict == dict
Matches(expected, test_case) ==
    /\ Range(expected.inputs.observations) = Range(test_case.observations)
    /\ expected.inputs.sensor_values = test_case.sensor_values

\* has_registered_expectations after the loop
has_registered_expectations(registry, test_case) ==
    \E k \in DOMAIN registry : Matches(registry[k], test_case)

\* faulty variant: the loop stops at the first matching entry
expected_results_FirstMatch(registry, test_case) ==
    LET matching == {k \in DOMAIN registry : Matches(registry[k], test_case)}
    IN  IF matching = {} THEN <<>>
        ELSE registry[CHOOSE k \in matching : \A m \in matching : k <= m].expected

\* expected_results after the loop: each matching entry overwrites it, so the
\* last matching entry of the registry stays
expected_results(registry, test_case) ==
    LET matching == {k \in DOMAIN registry : Matches(registry[k], test_case)}
    IN  IF matching = {} THEN <<>>
        ELSE registry[CHOOSE k \in matching : \A m \in matching : m <= k].expected

\* faulty variant: the comparison is made without registered expectations too
unexpected_Unguarded(actual, expected, registered) ==
    LET absent(a) == a \notin Range(expected)
    IN  SelectSeq(actual, absent)

\* for actual in actual_results: if actual not in expected_results: unexpected.append(actual)
unexpected(actual, expected, registered) ==
    LET absent(a) == a \notin Range(expected)
    IN  IF registered THEN SelectSeq(actual, absent) ELSE <<>>

\* for expected in expected_results: if expected not in actual_results: missing.append(expected)
missing(actual, expected, registered) ==
    LET absent(x) == x \notin Range(actual)
    IN  IF registered THEN SelectSeq(expected, absent) ELSE <<>>

\* faulty variant: missing results do not count as a surprise
has_surprise_UnexpectedOnly(unexp, miss, registered) ==
    registered /\ Len(unexp) > 0

\* has_surprise=(has_registered_expectations and (len(unexpected) > 0 or len(missing) > 0))
has_surprise(unexp, miss, registered) ==
    registered /\ (Len(unexp) > 0 \/ Len(miss) > 0)

\* TruthTableResult(...) as run_test_case builds it
TruthTableResult(test_case, diagnoses, registry) ==
    LET actual == actual_results(diagnoses)
        registered == has_registered_expectations(registry, test_case)
        expected == expected_results(registry, test_case)
        unexp == unexpected(actual, expected, registered)
        miss == missing(actual, expected, registered)
    IN  [inputs |-> test_case,
         diagnosed_failure_modes |-> actual,
         expected_failure_modes |-> expected,
         unexpected_results |-> unexp,
         missing_results |-> miss,
         has_surprise |-> has_surprise(unexp, miss, registered)]

\* the list diagnose returns to run_test_case (DiagnoseOutputs holds one list)
diagnose(obs_list, readings) ==
    CHOOSE out \in DiagnoseOutputs(Range(obs_list), readings) : TRUE

\* faulty variant: the unexpected list is created once for the whole run, so
\* that every case appends to the entries of the cases before it
run_truth_table_SharedList(cases, registry) ==
    LET one(i) == TruthTableResult(cases[i],
                      diagnose(cases[i].observations, cases[i].sensor_values), registry)
        RECURSIVE shared(_)
        shared(i) == IF i = 0 THEN <<>> ELSE shared(i - 1) \o one(i).unexpected_results
    IN  [i \in DOMAIN cases |-> [one(i) EXCEPT !.unexpected_results = shared(i)]]

\* results of run_truth_table: for test_case in test_cases:
\*     results.append(self.run_test_case(test_case))
run_truth_table(cases, registry) ==
    [i \in DOMAIN cases |->
        TruthTableResult(cases[i],
            diagnose(cases[i].observations, cases[i].sensor_values), registry)]

\* any(r.has_surprise for r in results)
check_for_surprises(results) == \E i \in DOMAIN results : results[i].has_surprise

\* the test_cases lists run_truth_table is given
TestCaseLists ==
    LET c1 == [observations |-> <<"o1">>, sensor_values |-> <<>>]
        c2 == [observations |-> <<"o2", "o1">>, sensor_values |-> [s \in Sensors |-> 1]]
    IN  {<<>>, <<c1>>, <<c1, c1>>, <<c1, c2, c1>>, <<c2, c1>>}

\* ------------------------------------------------------ format_results
\* The returned string is modelled line by line and cell by cell: a row is a
\* sequence of cells ('\n'.join, the csv quoting, the html tags and the ljust
\* padding are layout and left out).  A cell made from a list holds the list
\* it renders ("of"), the length of the list's string and the number of its
\* characters that the cell shows.

\* the names of the model in the order sorted() gives them
SortedNames == <<"o1", "o2", "s1", "s2">>

\* sorted(names)
sorted(names) ==
    LET member(x) == x \in names
    IN  SelectSeq(SortedNames, member)

\* len(name) of a node name and of a confidence value
len(name) ==
    CASE name \in FailureModes -> 1
      [] name \in {"confirms", "suggests"} -> 8
      [] name = "rules_out" -> 9
      [] name = "inconclusive" -> 12
      [] name = "suggests_against" -> 16
      [] OTHER -> 2

\* len(str(entries)) and len(json.dumps(entries)) of a list of
\* {'failure_mode': ..., 'confidence': ...} dicts: the brackets, ", " between
\* the entries and 38 characters of braces, keys and quotes in every entry
RECURSIVE str_length(_)
str_length(entries) ==
    IF entries = <<>> THEN 2
    ELSE 38 + len(Head(entries).failure_mode) + len(Head(entries).confidence)
            + (IF Tail(entries) = <<>> THEN 2 ELSE 2 + str_length(Tail(entries)))

\* json.dumps(entries) as a cell: the whole string
json_cell(entries) ==
    [of |-> entries, length |-> str_length(entries), shown |-> str_length(entries)]

\* '<td></td>': the cell html gives an empty unexpected or missing list
empty_cell == [of |-> <<>>, length |-> 0, shown |-> 0]

\* col_widths["Diagnosed"] = col_widths["Expected"] = ... = 40
list_column_width == 40

\* str(entries), cut to its first 37 characters and "..." when longer than 40
table_cell(entries) ==
    [of |-> entries, length |-> str_length(entries),
     shown |-> IF str_length(entries) > list_column_width
               THEN list_column_width - 3 ELSE str_length(entries)]

\* if only_surprises: results = [r for r in results if r.has_surprise]
rendered_results(results, only_surprises) ==
    LET surprising(r) == r.has_surprise
    IN  IF only_surprises THEN SelectSeq(results, surprising) ELSE results

\* all_obs and all_sensors: the names met in the results that are rendered
all_obs(results) == UNION {Range(results[i].inputs.observations) : i \in DOMAIN results}
all_sensors(results) == UNION {DOMAIN results[i].inputs.sensor_values : i \in DOMAIN results}

\* the header cells f"Obs: {obs}" and f"Sensor: {sensor}", sorted
input_header(results) ==
    LET obs == sorted(all_obs(results))
        sensors == sorted(all_sensors(results))
    IN  [i \in DOMAIN obs |-> [label |-> "Obs", name |-> obs[i]]]
        \o [i \in DOMAIN sensors |-> [label |-> "Sensor", name |-> sensors[i]]]

\* the cells of a result under the input columns: "Yes" / "No" per observation
\* and str(value) or "Unknown" per sensor
input_cells(result, results) ==
    LET obs == sorted(all_obs(results))
        sensors == sorted(all_sensors(results))
    IN  [i \in DOMAIN obs |->
            [text |-> IF obs[i] \in Range(result.inputs.observations) THEN "Yes" ELSE "No"]]
        \o [i \in DOMAIN sensors |->
            [text |-> IF sensors[i] \in DOMAIN result.inputs.sensor_values
                      THEN ToString(result.inputs.sensor_values[sensors[i]])
                      ELSE "Unknown"]]

\* the last four header cells of csv and html
list_header ==
    <<[label |-> "Diagnosed Failure Modes", name |-> ""],
      [label |-> "Expected Failure Modes", name |-> ""],
      [label |-> "Unexpected Results", name |-> ""],
      [label |-> "Missing Results", name |-> ""]>>

\* format == 'csv': the header row and one row per result
format_csv(results) ==
    << input_header(results) \o list_header >>
    \o [i \in DOMAIN results |->
            input_cells(results[i], results)
            \o <<json_cell(results[i].diagnosed_failure_modes),
                  json_cell(results[i].expected_failure_modes),
                  json_cell(results[i].unexpected_results),
                  json_cell(results[i].missing_results)>>]

\* format == 'html': as csv, with an empty cell for an empty unexpected or
\* missing list (the red colour of the others is layout)
format_html(results) ==
    << input_header(results) \o list_header >>
    \o [i \in DOMAIN results |->
            input_cells(results[i], results)
            \o <<json_cell(results[i].diagnosed_failure_modes),
                  json_cell(results[i].expected_failure_modes),
                  IF results[i].unexpected_results # <<>>
                  THEN json_cell(results[i].unexpected_results) ELSE empty_cell,
                  IF results[i].missing_results # <<>>
                  THEN json_cell(results[i].missing_results) ELSE empty_cell>>]

\* the last four header cells of the table format
table_list_header ==
    <<[label |-> "Diagnosed", name |-> ""], [label |-> "Expected", name |-> ""],
      [label |-> "Unexpected", name |-> ""], [label |-> "Missing", name |-> ""]>>

\* col_widths: max(len(f"Obs: {obs}"), 5), max(len(f"Sensor: {sensor}"), 10), 40
col_width(header_cell) ==
    CASE header_cell.label = "Obs" ->
            IF 5 + len(header_cell.name) > 5 THEN 5 + len(header_cell.name) ELSE 5
      [] header_cell.label = "Sensor" ->
            IF 8 + len(header_cell.name) > 10 THEN 8 + len(header_cell.name) ELSE 10
      [] OTHER -> list_column_width

\* format == 'table': the header row, the separator row and one row per result
format_table(results) ==
    LET header == input_header(results) \o table_list_header
    IN  << header, [i \in DOMAIN header |-> [dashes |-> col_width(header[i])]] >>
        \o [i \in DOMAIN results |->
                input_cells(results[i], results)
                \o <<table_cell(results[i].diagnosed_failure_modes),
                      table_cell(results[i].expected_failure_modes),
                      table_cell(results[i].unexpected_results),
                      table_cell(results[i].missing_results)>>]

\* the default text format: the lines of every result, the lines of the
\* expected, unexpected and missing lists only when the list is not empty
format_text(results) ==
    [i \in DOMAIN results |->
        <<[label |-> "Test Case", value |-> i],
          [label |-> "Observations", value |-> results[i].inputs.observations],
          [label |-> "Sensor Values", value |-> results[i].inputs.sensor_values],
          [label |-> "Diagnosed Failure Modes", value |-> results[i].diagnosed_failure_modes]>>
        \o (IF results[i].expected_failure_modes # <<>>
            THEN <<[label |-> "Expected Failure Modes",
                    value |-> results[i].expected_failure_modes]>> ELSE <<>>)
        \o (IF results[i].unexpected_results # <<>>
            THEN <<[label |-> "UNEXPECTED RESULTS",
                    value |-> results[i].unexpected_results]>> ELSE <<>>)
        \o (IF results[i].missing_results # <<>>
            THEN <<[label |-> "MISSING RESULTS",
                    value |-> results[i].missing_results]>> ELSE <<>>)
        \o <<[label |-> "", value |-> <<>>]>>]

\* the formats a caller asks for
Formats == {"text", "csv", "html", "table"}

\* format_results(results, only_surprises, format)
format_results(results, only_surprises, format) ==
    LET rendered == rendered_results(results, only_surprises)
    IN  IF rendered = <<>> THEN << <<[label |-> "No results to display.", name |-> ""]>> >>
        ELSE CASE format = "csv" -> format_csv(rendered)
               [] format = "html" -> format_html(rendered)
               [] format = "table" -> format_table(rendered)
               [] OTHER -> format_text(rendered)

\* ------------------------------------------------- generate_test_cases
\* the graphs scan_graph and generate_test_cases are run on: sensor s1 has
\* edges with no threshold, one, two that are 0.1 apart or two that are 0.3
\* apart; sensor s2 has no edge or one
ScanThresholdSets == {{}, {1}, {1, 2}, {1, 4}}
ScanEvidenceSets ==
    {{[src |-> "s1", kind |-> "sensor", tgt |-> "F", when_true_strength |-> "confirms",
       when_false_strength |-> "rules_out", operator |-> "<", threshold |-> t] : t \in T}
     \cup S :
        T \in ScanThresholdSets,
        S \in SUBSET {[src |-> "s2", kind |-> "sensor", tgt |-> "F",
                        when_true_strength |-> "confirms",
                        when_false_strength |-> "rules_out",
                        operator |-> ">", threshold |-> 1]}}

\* the lists without repetition of the elements of S
Orderings(S) ==
    {q \in [1..Cardinality(S) -> S] : \A i, j \in DOMAIN q : i # j => q[i] # q[j]}

\* itertools.combinations(seq, r), in the order itertools yields them
RECURSIVE combinations(_, _)
combinations(seq, r) ==
    IF r = 0 THEN << <<>> >>
    ELSE IF Len(seq) < r THEN <<>>
    ELSE LET with == combinations(Tail(seq), r - 1)
             without == combinations(Tail(seq), r)
         IN  [i \in 1..Len(with) |-> <<Head(seq)>> \o with[i]] \o without

\* for r in range(1, n + 1): for combo in combinations(...): append, for n = upto
RECURSIVE combinations_up_to(_, _)
combinations_up_to(seq, upto) ==
    IF upto = 0 THEN <<>>
    ELSE combinations_up_to(seq, upto - 1) \o combinations(seq, upto)

\* faulty variant: the list does not start with the empty combination
observation_combinations_NoEmpty(vary_observations) ==
    combinations_up_to(vary_observations, Len(vary_observations))

\* observation_combinations = [[]] followed by the combinations of every size
observation_combinations(vary_observations) ==
    << <<>> >> \o combinations_up_to(vary_observations, Len(vary_observations))

\* faulty variant: the threshold itself is not among the test values
RECURSIVE sensor_test_values_NoExact(_)
sensor_test_values_NoExact(thresholds) ==
    IF thresholds = <<>> THEN << <<>> >>
    ELSE LET threshold == Head(thresholds)
         IN  << <<threshold - 1>>, <<threshold + 1>> >>
                 \o sensor_test_values_NoExact(Tail(thresholds))

\* a test value of a sensor: <<v>> is the value v, <<>> is None
\* sensor_test_values: threshold - 0.1, threshold + 0.1, threshold for every
\* threshold in turn, then None
RECURSIVE sensor_test_values(_)
sensor_test_values(thresholds) ==
    IF thresholds = <<>> THEN << <<>> >>
    ELSE LET threshold == Head(thresholds)
         IN  << <<threshold - 1>>, <<threshold + 1>>, <<threshold>> >>
                 \o sensor_test_values(Tail(thresholds))

\* new_combo = existing.copy(); if value is not None: new_combo[sensor_name] = value
new_combo(existing, sensor_name, value) ==
    IF value = <<>> THEN existing
    ELSE [x \in DOMAIN existing \cup {sensor_name} |->
             IF x = sensor_name THEN value[1] ELSE existing[x]]

\* sensor_value_combinations after the loop over vary_sensors ([{}] before it);
\* a sensor scan_graph has not registered is passed over
RECURSIVE sensor_value_combinations(_, _)
sensor_value_combinations(vary_sensors, scanned) ==
    IF vary_sensors = <<>> THEN << <<>> >>
    ELSE LET n == Len(vary_sensors)
             sensor_name == vary_sensors[n]
             existing == sensor_value_combinations(SubSeq(vary_sensors, 1, n - 1), scanned)
         IN  IF sensor_name \notin DOMAIN scanned THEN existing
             ELSE LET values == sensor_test_values(scanned[sensor_name])
                      k == Len(values)
                  IN  [i \in 1..(Len(existing) * k) |->
                          new_combo(existing[((i - 1) \div k) + 1], sensor_name,
                                    values[((i - 1) % k) + 1])]

\* full_obs: obs_combo and then every fixed observation that is present and
\* not yet in the list (fixed_observations is a dict, here the list of its items)
RECURSIVE full_obs(_, _)
full_obs(obs_combo, fixed_observations) ==
    IF fixed_observations = <<>> THEN obs_combo
    ELSE LET item == Head(fixed_observations)
             added == IF item.present /\ item.obs \notin Range(obs_combo)
                      THEN Append(obs_combo, item.obs) ELSE obs_combo
         IN  full_obs(added, Tail(fixed_observations))

\* faulty variant: a varied value is not overwritten by the fixed one
full_sensors_VariedWins(sensor_combo, fixed_sensor_values) ==
    [x \in DOMAIN sensor_combo \cup DOMAIN fixed_sensor_values |->
        IF x \in DOMAIN sensor_combo THEN sensor_combo[x]
        ELSE fixed_sensor_values[x]]

\* full_sensors: sensor_combo overwritten with every fixed sensor value
full_sensors(sensor_combo, fixed_sensor_values) ==
    [x \in DOMAIN sensor_combo \cup DOMAIN fixed_sensor_values |->
        IF x \in DOMAIN fixed_sensor_values THEN fixed_sensor_values[x]
        ELSE sensor_combo[x]]

\* the list generate_test_cases returns once vary_observations has its default
generate_test_cases(vary_observations, fixed_observations, vary_sensors, fixed_sensor_values, scanned) ==
    LET obs_combos == observation_combinations(vary_observations)
        sensor_combos == sensor_value_combinations(vary_sensors, scanned)
        k == Len(sensor_combos)
    IN  [i \in 1..(Len(obs_combos) * k) |->
            [observations |-> full_obs(obs_combos[((i - 1) \div k) + 1], fixed_observations),
             sensor_values |-> full_sensors(sensor_combos[((i - 1) % k) + 1],
                                            fixed_sensor_values)]]

\* if not vary_observations and not fixed_observations:
\*     vary_observations = list(self.observations)   (a set listed in any order)
vary_observations_defaults(vary_observations, fixed_observations, scanned_observations) ==
    IF vary_observations = <<>> /\ fixed_observations = <<>>
    THEN Orderings(scanned_observations)
    ELSE {vary_observations}

\* the arguments generate_test_cases is called with
VaryObservations == ObservationLists
FixedObservations ==
    {<<>>, <<[obs |-> "o1", present |-> TRUE]>>, <<[obs |-> "o2", present |-> FALSE]>>,
     <<[obs |-> "o2", present |-> TRUE], [obs |-> "o1", present |-> TRUE]>>}
VarySensors == {<<>>, <<"s1">>, <<"s2">>, <<"s2", "s1">>}
FixedSensorValues == {<<>>, [s \in {"s1"} |-> 3], [s \in {"s2"} |-> 0]}

\* generate_test_cases called without arguments (every argument None)
NoArguments ==
    [vary_observations |-> <<>>, fixed_observations |-> <<>>,
     vary_sensors |-> <<>>, fixed_sensor_values |-> <<>>]

\* the arguments run_truth_table is called with when it generates its cases
RunArguments ==
    {NoArguments,
     [vary_observations |-> <<"o1">>, fixed_observations |-> <<>>,
      vary_sensors |-> <<"s1">>, fixed_sensor_values |-> <<>>]}

\* the thresholds scan_graph adds to a sensor's list: those of the sensor's
\* edges that are not in it yet, in the order the query returns the edges
scanned_thresholds(old, sensor_name) ==
    LET found == {e.threshold : e \in {x \in evidence : x.kind = "sensor" /\ x.src = sensor_name}}
    IN  {old \o q : q \in Orderings(found \ Range(old))}

\* ----------------------------------------------------------------- machine
\* no recommendation, explanation or formatted text has been asked for
NoReports ==
    /\ test_recommendations = <<>>
    /\ explained_failure_mode = NULL
    /\ explanation_evidence = <<>>
    /\ explanation_text = <<>>
    /\ format_args = NoFormat
    /\ formatted = <<>>

\* the diagnostic engine over any graph of the store
Init ==
    /\ causes \in SUBSET CausesLinks
    /\ evidence \in EdgeSets(MaxEdges)
    /\ observation_nodes = ObservationNames(causes, evidence)
    /\ discovery_order \in DiscoveryOrders
    /\ observations = {}
    /\ sensor_readings = <<>>
    /\ diagnostic_results = <<>>
    /\ expected_outcomes = <<>>
    /\ truth_table_result = NoResult
    /\ tt_observations = {}
    /\ tt_sensor_readings = <<>>
    /\ generate_args = NoArguments
    /\ test_cases = <<>>
    /\ truth_table_results = <<>>
    /\ raised_at = 0
    /\ NoReports
    /\ pc = "idle"

\* the diagnostic engine over a graph with at least one sensor edge that
\* nothing validated
InitUnvalidated ==
    /\ causes \in SUBSET CausesLinks
    /\ evidence \in {s \cup m : s \in EdgeSets(MaxEdges - 1),
                                m \in (SUBSET UnvalidatedEvidenceLinks) \ {{}}}
    /\ observation_nodes = ObservationNames(causes, evidence)
    /\ discovery_order \in DiscoveryOrders
    /\ observations = {}
    /\ sensor_readings = <<>>
    /\ diagnostic_results = <<>>
    /\ expected_outcomes = <<>>
    /\ truth_table_result = NoResult
    /\ tt_observations = {}
    /\ tt_sensor_readings = <<>>
    /\ generate_args = NoArguments
    /\ test_cases = <<>>
    /\ truth_table_results = <<>>
    /\ raised_at = 0
    /\ NoReports
    /\ pc = "idle"

\* the diagnostic engine over the graphs recommendations are asked over (one
\* edge more than elsewhere: two recommendations of different size take three)
InitRecommend ==
    /\ causes \in SUBSET RecommendationCausesLinks
    /\ evidence \in RecommendationEdgeSets(MaxEdges + 1)
    /\ observation_nodes = ObservationNames(causes, evidence)
    /\ discovery_order \in DiscoveryOrders
    /\ observations = {}
    /\ sensor_readings = <<>>
    /\ diagnostic_results = <<>>
    /\ expected_outcomes = <<>>
    /\ truth_table_result = NoResult
    /\ tt_observations = {}
    /\ tt_sensor_readings = <<>>
    /\ generate_args = NoArguments
    /\ test_cases = <<>>
    /\ truth_table_results = <<>>
    /\ raised_at = 0
    /\ NoReports
    /\ pc = "idle"

\* DiagnosticEngine.get_test_recommendations(current_observations)
GetTestRecommendations ==
    /\ pc = "idle"
    /\ \E obs \in SUBSET Observations :
         \E out \in RecommendationOutputs(obs) :
           /\ observations' = obs
           /\ test_recommendations' = out
    /\ pc' = "recommended"
    /\ UNCHANGED <<store, sensor_readings, diagnostic_results, expected_outcomes,
                   truth_table_result, tt_observations, tt_sensor_readings,
                   generate_args, test_cases, truth_table_results, raised_at,
                   explained_failure_mode, explanation_evidence, explanation_text,
                   format_args, formatted>>

\* TruthTable.__init__ over the example graph
InitTT ==
    /\ causes = ExampleCauses
    /\ evidence = ExampleEvidence
    /\ observation_nodes = ObservationNames(causes, evidence)
    /\ discovery_order \in DiscoveryOrders
    /\ observations = {}
    /\ sensor_readings = <<>>
    /\ diagnostic_results = <<>>
    /\ expected_outcomes = <<>>
    /\ truth_table_result = NoResult
    /\ tt_observations = {}
    /\ tt_sensor_readings = <<>>
    /\ generate_args = NoArguments
    /\ test_cases = <<>>
    /\ truth_table_results = <<>>
    /\ raised_at = 0
    /\ NoReports
    /\ pc = "idle"

\* DiagnosticEngine.diagnose(observations, sensor_readings): the caller passes
\* its arguments and receives the list the query returns.
Diagnose ==
    /\ pc = "idle"
    /\ \E obs \in SUBSET Observations, readings \in SensorReadingMaps :
         \E out \in DiagnoseOutputs(obs, readings) :
           /\ observations' = obs
           /\ sensor_readings' = readings
           /\ diagnostic_results' = out
    /\ pc' = "diagnosed"
    /\ UNCHANGED <<store, reports, expected_outcomes, truth_table_result, tt_observations,
                   tt_sensor_readings, generate_args, test_cases, truth_table_results, raised_at>>

\* TruthTable.register_expected_outcome(test_case)
RegisterExpectedOutcome ==
    /\ pc = "idle"
    /\ Len(expected_outcomes) < MaxRegistered
    /\ \E test_case \in TestCases :
         expected_outcomes' = Append(expected_outcomes, test_case)
    /\ UNCHANGED <<store, reports, observations, sensor_readings, diagnostic_results,
                   truth_table_result, tt_observations, tt_sensor_readings,
                   generate_args, test_cases, truth_table_results, raised_at, pc>>

\* TruthTable.run_test_case(test_case): the diagnose call and the comparison
\* with the registry
RunTestCase ==
    /\ pc = "idle"
    /\ \E test_case \in TestCaseInputs :
         \E out \in DiagnoseOutputs(Range(test_case.observations), test_case.sensor_values) :
           /\ observations' = Range(test_case.observations)
           /\ sensor_readings' = test_case.sensor_values
           /\ diagnostic_results' = out
           /\ truth_table_result' = TruthTableResult(test_case, out, expected_outcomes)
    /\ pc' = "ran"
    /\ UNCHANGED <<store, reports, expected_outcomes, tt_observations, tt_sensor_readings,
                   generate_args, test_cases, truth_table_results, raised_at>>

\* the caller is done with the returned value and may call again
Return ==
    /\ pc \in {"diagnosed", "ran", "generated", "batch", "raised",
              "recommended", "explained", "formatted"}
    /\ observations' = {}
    /\ sensor_readings' = <<>>
    /\ diagnostic_results' = <<>>
    /\ truth_table_result' = NoResult
    /\ generate_args' = NoArguments
    /\ test_cases' = <<>>
    /\ truth_table_results' = <<>>
    /\ raised_at' = 0
    /\ test_recommendations' = <<>>
    /\ explained_failure_mode' = NULL
    /\ explanation_evidence' = <<>>
    /\ explanation_text' = <<>>
    /\ format_args' = NoFormat
    /\ formatted' = <<>>
    /\ pc' = "idle"
    /\ UNCHANGED <<store, expected_outcomes, tt_observations, tt_sensor_readings>>

\* TruthTable.__init__ over a store with Observation nodes and sensor edges
InitGen ==
    /\ causes = {}
    /\ evidence \in ScanEvidenceSets
    /\ observation_nodes \in {{}, {"o1"}, {"o1", "o2"}}
    /\ discovery_order = <<"F", "G">>
    /\ observations = {}
    /\ sensor_readings = <<>>
    /\ diagnostic_results = <<>>
    /\ expected_outcomes = <<>>
    /\ truth_table_result = NoResult
    /\ tt_observations = {}
    /\ tt_sensor_readings = <<>>
    /\ generate_args = NoArguments
    /\ test_cases = <<>>
    /\ truth_table_results = <<>>
    /\ raised_at = 0
    /\ NoReports
    /\ pc = "idle"

\* TruthTable.scan_graph(): the names of the Observation nodes, and for every
\* sensor with an EVIDENCE_FOR edge the thresholds of its edges
ScanGraph ==
    /\ pc = "idle"
    /\ tt_observations' = tt_observations \cup observation_nodes
    /\ LET names == {e.src : e \in {x \in evidence : x.kind = "sensor"}}
           old(s) == IF s \in DOMAIN tt_sensor_readings THEN tt_sensor_readings[s] ELSE <<>>
       IN  \E f \in [names -> UNION {scanned_thresholds(old(s), s) : s \in names}] :
             /\ \A s \in names : f[s] \in scanned_thresholds(old(s), s)
             /\ tt_sensor_readings' =
                    [x \in DOMAIN tt_sensor_readings \cup names |->
                        IF x \in names THEN f[x] ELSE tt_sensor_readings[x]]
    /\ UNCHANGED <<store, reports, observations, sensor_readings, diagnostic_results,
                   expected_outcomes, truth_table_result, generate_args, test_cases,
                   truth_table_results, raised_at, pc>>

\* TruthTable.generate_test_cases(vary_observations, fixed_observations,
\*                                vary_sensors, fixed_sensor_values)
GenerateTestCases ==
    /\ pc = "idle"
    /\ \E vo \in VaryObservations, fo \in FixedObservations,
          vs \in VarySensors, fs \in FixedSensorValues :
         \E varied \in vary_observations_defaults(vo, fo, tt_observations) :
           /\ generate_args' = [vary_observations |-> vo, fixed_observations |-> fo,
                                vary_sensors |-> vs, fixed_sensor_values |-> fs]
           /\ test_cases' = generate_test_cases(varied, fo, vs, fs, tt_sensor_readings)
    /\ pc' = "generated"
    /\ UNCHANGED <<store, reports, observations, sensor_readings, diagnostic_results,
                   expected_outcomes, truth_table_result, tt_observations,
                   tt_sensor_readings, truth_table_results, raised_at>>

\* what run_truth_table may be called with: a list of test cases (the other
\* arguments are then ignored), or arguments from which it generates the list
RunInputs ==
    {[args |-> NoArguments, cases |-> given] : given \in TestCaseLists}
    \cup
    UNION {{[args |-> a,
             cases |-> generate_test_cases(varied, a.fixed_observations, a.vary_sensors,
                                           a.fixed_sensor_values, tt_sensor_readings)] :
               varied \in vary_observations_defaults(a.vary_observations,
                              a.fixed_observations, tt_observations)} :
           a \in RunArguments}

\* TruthTable.run_truth_table(...) when every diagnosis call returns
RunTruthTable ==
    /\ pc = "idle"
    /\ \E in \in RunInputs :
         /\ generate_args' = in.args
         /\ test_cases' = in.cases
         /\ truth_table_results' = run_truth_table(in.cases, expected_outcomes)
    /\ raised_at' = 0
    /\ pc' = "batch"
    /\ UNCHANGED <<store, reports, observations, sensor_readings, diagnostic_results,
                   expected_outcomes, truth_table_result, tt_observations,
                   tt_sensor_readings>>

\* TruthTable.run_truth_table(...) when the store fails during the diagnosis
\* call of one case (db.run_query raises): neither run_test_case nor the loop
\* of run_truth_table catches, the exception leaves run_truth_table and the
\* results list is lost with it
RunTruthTableRaises ==
    /\ pc = "idle"
    /\ \E in \in RunInputs :
         /\ generate_args' = in.args
         /\ test_cases' = in.cases
         /\ \E i \in DOMAIN in.cases : raised_at' = i
    /\ truth_table_results' = <<>>
    /\ pc' = "raised"
    /\ UNCHANGED <<store, reports, observations, sensor_readings, diagnostic_results,
                   expected_outcomes, truth_table_result, tt_observations,
                   tt_sensor_readings>>

Next == Diagnose \/ Return

Spec == Init /\ [][Next]_vars

NextTT == RegisterExpectedOutcome \/ RunTestCase \/ Return

SpecUnvalidated == InitUnvalidated /\ [][Next]_vars

SpecTT == InitTT /\ [][NextTT]_vars

NextBatch == ScanGraph \/ RegisterExpectedOutcome \/ RunTruthTable \/ Return

SpecBatch == InitTT /\ [][NextBatch]_vars

NextRaise == ScanGraph \/ RunTruthTable \/ RunTruthTableRaises \/ Return

SpecRaise == InitTT /\ [][NextRaise]_vars

NextGen == ScanGraph \/ GenerateTestCases \/ Return

SpecGen == InitGen /\ [][NextGen]_vars

\* TruthTable.format_results(results, only_surprises, format) on the list
\* run_truth_table returned
FormatResults ==
    /\ pc = "batch"
    /\ \E only_surprises \in BOOLEAN, format \in Formats :
         /\ format_args' = [only_surprises |-> only_surprises, format |-> format]
         /\ formatted' = format_results(truth_table_results, only_surprises, format)
    /\ pc' = "formatted"
    /\ UNCHANGED <<store, observations, sensor_readings, diagnostic_results,
                   expected_outcomes, truth_table_result, tt_observations,
                   tt_sensor_readings, generate_args, test_cases, truth_table_results,
                   raised_at, test_recommendations, explained_failure_mode,
                   explanation_evidence, explanation_text>>

NextFormat == ScanGraph \/ RegisterExpectedOutcome \/ RunTruthTable \/ FormatResults \/ Return

SpecFormat == InitTT /\ [][NextFormat]_vars

\* DiagnosticEngine.explain_diagnosis_text(failure_mode, observations,
\* sensor_readings) for the input of the diagnose call just made: its call of
\* explain_diagnosis, whose list is kept, its call of get_causal_paths, and
\* the text
ExplainDiagnosisText ==
    /\ pc = "diagnosed"
    /\ \E fm \in FailureModes :
         \E obs_order \in Orderings(explained_rows(
                  explained_observation_evidence(fm, observations), sensor_readings)),
            sensor_order \in Orderings(explained_rows(
                  explained_sensor_evidence(fm, sensor_readings), sensor_readings)),
            causal_paths \in Orderings(get_causal_paths(fm, observations)) :
           /\ explained_failure_mode' = fm
           /\ explanation_evidence' = explain_diagnosis(obs_order, sensor_order, sensor_readings)
           /\ explanation_text' = explain_diagnosis_text(fm,
                    explain_diagnosis(obs_order, sensor_order, sensor_readings), causal_paths)
    /\ pc' = "explained"
    /\ UNCHANGED <<store, observations, sensor_readings, diagnostic_results,
                   expected_outcomes, truth_table_result, tt_observations,
                   tt_sensor_readings, generate_args, test_cases, truth_table_results,
                   raised_at, test_recommendations, format_args, formatted>>

NextExplain == Diagnose \/ ExplainDiagnosisText \/ Return

SpecExplain == Init /\ [][NextExplain]_vars

NextRecommend == Diagnose \/ GetTestRecommendations \/ Return

SpecRecommend == InitRecommend /\ [][NextRecommend]_vars

\* =================================================================== claims
\* What the specification means by the input's contributions, stated on the
\* graph and on the arguments of the call the state records.

\* the meaning of the six comparison operators of ComparisonOperator
OperatorHolds(op, v, t) ==
    CASE op = "=" -> v = t
      [] op = "<" -> v < t
      [] op = ">" -> v > t
      [] op = "<=" -> v <= t
      [] op = ">=" -> v >= t
      [] op = "in" -> v \in {t}

\* the edges to fm whose source the input asserts
AssertedEdges(fm) ==
    {e \in evidence :
        /\ e.tgt = fm
        /\ \/ e.kind = "observation" /\ e.src \in observations
           \/ e.kind = "sensor" /\ e.src \in DOMAIN sensor_readings}

\* an asserted observation, or a sensor whose comparison is true
IsSupporting(e) ==
    \/ e.kind = "observation"
    \/ e.kind = "sensor" /\ OperatorHolds(e.operator, sensor_readings[e.src], e.threshold)

SupportingContributions(fm) == {e \in AssertedEdges(fm) : IsSupporting(e)}
ContradictingContributions(fm) == {e \in AssertedEdges(fm) : ~IsSupporting(e)}
SupportingStrengths(fm) == {e.when_true_strength : e \in SupportingContributions(fm)}
ContradictingStrengths(fm) == {e.when_false_strength : e \in ContradictingContributions(fm)}

IsCandidate(fm) == \E c \in causes : c.fm = fm /\ c.obs \in observations

RecordsOf(fm) ==
    {i \in DOMAIN diagnostic_results : diagnostic_results[i].failure_mode = fm}
IsReported(fm) == RecordsOf(fm) # {}
ReportedWith(fm, conf) ==
    \E i \in RecordsOf(fm) : diagnostic_results[i].confidence = conf

\* C1: a failure mode with a contradicting contribution of
\* strength rules_out, that is a sensor edge whose comparison is false and
\* whose when_false_strength is rules_out, is absent from diagnose's output.
C1_RuleOutDominance ==
    pc = "diagnosed" =>
        \A fm \in FailureModes :
            "rules_out" \in ContradictingStrengths(fm) => ~IsReported(fm)

\* C2: a candidate that is not ruled out and has at least
\* one contradicting contribution is reported with confidence inconclusive,
\* whatever supports it.
C2_ContradictionForcesInconclusive ==
    pc = "diagnosed" =>
        \A fm \in FailureModes :
            (/\ IsCandidate(fm)
             /\ ContradictingContributions(fm) # {}
             /\ "rules_out" \notin ContradictingStrengths(fm))
            => (IsReported(fm) /\ \A i \in RecordsOf(fm) :
                    diagnostic_results[i].confidence = "inconclusive")

\* the first of confirms, suggests, suggests_against among the strengths S,
\* inconclusive when none of the three occurs
FirstByPrecedence(S) ==
    IF "confirms" \in S THEN "confirms"
    ELSE IF "suggests" \in S THEN "suggests"
    ELSE IF "suggests_against" \in S THEN "suggests_against"
    ELSE "inconclusive"

\* C3: a candidate with at least one contribution and no
\* contradicting one is reported with the first of confirms, suggests,
\* suggests_against among its supporting strengths, else with inconclusive.
C3_PrecedenceOrder ==
    pc = "diagnosed" =>
        \A fm \in FailureModes :
            (/\ IsCandidate(fm)
             /\ AssertedEdges(fm) # {}
             /\ ContradictingContributions(fm) = {})
            => ReportedWith(fm, FirstByPrecedence(SupportingStrengths(fm)))

\* C4: every failure mode diagnose returns has a CausesLink to an observation
\* of the input, and the returned list is empty when no failure mode has one
\* (so for an empty observation list, whatever the sensor values).
C4_CandidateFilter ==
    pc = "diagnosed" =>
        /\ \A i \in DOMAIN diagnostic_results :
              \E c \in causes : /\ c.fm = diagnostic_results[i].failure_mode
                                /\ c.obs \in observations
        /\ (\A c \in causes : c.obs \notin observations) => diagnostic_results = <<>>

\* C4 witness: F is returned as a candidate while G, which has asserted
\* evidence but no CausesLink to an input observation, is filtered out.
C4_Witness ==
    /\ pc = "diagnosed"
    /\ IsReported("F")
    /\ AssertedEdges("G") # {}
    /\ ~IsCandidate("G")
    /\ ~IsReported("G")

\* C5: an evidence edge whose source the input does not assert contributes
\* nothing: its source is in neither evidence list of the target's record, and
\* whether the target is returned, and with which record, is decided by the
\* asserted edges alone (no when_false_strength of an absent source applies).
C5_UnassertedEdgesAreInert ==
    pc = "diagnosed" =>
        \A fm \in FailureModes :
            /\ \A i \in RecordsOf(fm) : \A e \in evidence :
                  (e.tgt = fm /\ e \notin AssertedEdges(fm)) =>
                      /\ e.src \notin diagnostic_results[i].supporting_evidence
                      /\ e.src \notin diagnostic_results[i].contradicting_evidence
            /\ \A i \in RecordsOf(fm) :
                  diagnostic_results[i] =
                      DiagnosticResult(fm, AssertedEdges(fm), sensor_readings)
            /\ IsCandidate(fm) =>
                  (IsReported(fm) <=> IsReturned(AssertedEdges(fm), sensor_readings))

\* C5 witness: F is returned although an observation that is not in the input
\* has an edge to F whose when_false_strength is rules_out, and a sensor
\* without a value has an edge to F too.
C5_Witness ==
    /\ pc = "diagnosed"
    /\ IsReported("F")
    /\ \E e \in evidence : /\ e.tgt = "F" /\ e.kind = "observation"
                           /\ e.src \notin observations
                           /\ e.when_false_strength = "rules_out"

\* C6: a sensor edge whose sensor has a value counts as
\* supporting with when_true_strength when operator(v, threshold) is true and
\* as contradicting with when_false_strength when it is false, for each of
\* the six operators: its source is in the list of its polarity, and when it
\* is the only asserted edge of a candidate its strength decides the outcome.
C6_SensorComparison ==
    pc = "diagnosed" =>
        \A e \in evidence :
            (e.kind = "sensor" /\ e.src \in DOMAIN sensor_readings /\ IsCandidate(e.tgt)) =>
                /\ \A i \in RecordsOf(e.tgt) :
                      IF IsSupporting(e)
                      THEN e.src \in diagnostic_results[i].supporting_evidence
                      ELSE e.src \in diagnostic_results[i].contradicting_evidence
                /\ AssertedEdges(e.tgt) = {e} =>
                      IF IsSupporting(e)
                      THEN ReportedWith(e.tgt, e.when_true_strength)
                      ELSE IF e.when_false_strength = "rules_out"
                           THEN ~IsReported(e.tgt)
                           ELSE ReportedWith(e.tgt, "inconclusive")

\* C7: every candidate that is not ruled out appears
\* exactly once in the output; a candidate without any contribution is
\* returned with confidence inconclusive.
C7_EveryCandidateReported ==
    pc = "diagnosed" =>
        \A fm \in FailureModes :
            /\ Cardinality(RecordsOf(fm)) <= 1
            /\ (IsCandidate(fm) /\ AssertedEdges(fm) = {}) =>
                  ReportedWith(fm, "inconclusive")

\* C8: supporting_evidence holds the names of the
\* supporting contributions and contradicting_evidence those of the
\* contradicting ones.
C8_EvidenceListsByPolarity ==
    pc = "diagnosed" =>
        \A i \in DOMAIN diagnostic_results :
            LET fm == diagnostic_results[i].failure_mode
            IN  /\ diagnostic_results[i].supporting_evidence =
                      {e.src : e \in SupportingContributions(fm)}
                /\ diagnostic_results[i].contradicting_evidence =
                      {e.src : e \in ContradictingContributions(fm)}

\* the rank the claim orders by
C9_Rank(c) ==
    CASE c = "confirms" -> 0
      [] c = "suggests" -> 1
      [] c = "suggests_against" -> 2
      [] c = "inconclusive" -> 3
      [] OTHER -> 4

\* C9: no record of diagnose's output is preceded by a record whose
\* confidence has a strictly larger rank (confirms < suggests <
\* suggests_against < inconclusive).
C9_OrderedByConfidence ==
    pc = "diagnosed" =>
        \A i, j \in DOMAIN diagnostic_results :
            i < j => C9_Rank(diagnostic_results[i].confidence)
                        <= C9_Rank(diagnostic_results[j].confidence)

\* C9 witness: two failure modes are returned, one at confirms and the other
\* at suggests.
C9_Witness ==
    /\ pc = "diagnosed"
    /\ Len(diagnostic_results) = 2
    /\ diagnostic_results[1].confidence = "confirms"
    /\ diagnostic_results[2].confidence = "suggests"

\* the (failure_mode, confidence) entries of the last diagnose call
ActualEntries ==
    {[failure_mode |-> diagnostic_results[i].failure_mode,
      confidence |-> diagnostic_results[i].confidence] : i \in DOMAIN diagnostic_results}

\* the registry entries whose input is the given one
MatchingEntriesOf(inputs) ==
    {k \in DOMAIN expected_outcomes :
        /\ Range(expected_outcomes[k].inputs.observations) = Range(inputs.observations)
        /\ expected_outcomes[k].inputs.sensor_values = inputs.sensor_values}

\* the registry entries whose input is the input of the case just run
MatchingEntries == MatchingEntriesOf(truth_table_result.inputs)

\* C10: for a case with a matching registry entry, unexpected holds the actual
\* entries absent from expected, missing the expected entries absent from
\* actual, and has_surprise is true exactly when one of the two is non-empty,
\* that is exactly when actual and expected differ as sets.
C10_SurpriseIsTheDifference ==
    (pc = "ran" /\ MatchingEntries # {}) =>
        LET r == truth_table_result
            expected == Range(r.expected_failure_modes)
        IN  /\ Range(r.diagnosed_failure_modes) = ActualEntries
            /\ \E k \in MatchingEntries :
                  expected_outcomes[k].expected = r.expected_failure_modes
            /\ Range(r.unexpected_results) = ActualEntries \ expected
            /\ Range(r.missing_results) = expected \ ActualEntries
            /\ r.has_surprise <=>
                  (r.unexpected_results # <<>> \/ r.missing_results # <<>>)
            /\ (~r.has_surprise) <=> (ActualEntries = expected)

\* C10 witness: a registered case whose failure mode G is diagnosed with
\* another confidence than expected, so that G is in unexpected and in missing.
C10_Witness ==
    /\ pc = "ran"
    /\ MatchingEntries # {}
    /\ truth_table_result.has_surprise
    /\ \E u \in Range(truth_table_result.unexpected_results),
          m \in Range(truth_table_result.missing_results) :
          /\ u.failure_mode = "G" /\ m.failure_mode = "G"
          /\ u.confidence # m.confidence

\* C11: in the results of a run, a case without a matching registry entry
\* has has_surprise = false and empty expected, unexpected and missing lists,
\* whatever diagnose returned for it; so check_for_surprises is false for
\* every run made with an empty registry.
C11_UnregisteredNeverSurprises ==
    pc = "batch" =>
        /\ \A i \in DOMAIN truth_table_results :
              LET r == truth_table_results[i]
              IN  MatchingEntriesOf(r.inputs) = {} =>
                      /\ ~r.has_surprise
                      /\ r.expected_failure_modes = <<>>
                      /\ r.unexpected_results = <<>>
                      /\ r.missing_results = <<>>
        /\ expected_outcomes = <<>> => ~check_for_surprises(truth_table_results)

\* C11 witness: expectations are registered, but none for a case of the run
\* for which diagnose returned a failure mode.
C11_Witness ==
    /\ pc = "batch"
    /\ expected_outcomes # <<>>
    /\ \E i \in DOMAIN truth_table_results :
          /\ MatchingEntriesOf(truth_table_results[i].inputs) = {}
          /\ truth_table_results[i].diagnosed_failure_modes # <<>>
          /\ ~truth_table_results[i].has_surprise

\* an entry whose input differs from the case's by exactly one observation,
\* or by one sensor key that one of the two has and the other has not
DiffersByOne(entry, test_case) ==
    LET eo == Range(entry.inputs.observations)
        co == Range(test_case.observations)
        es == DOMAIN entry.inputs.sensor_values
        cs == DOMAIN test_case.sensor_values
    IN  \/ Cardinality((eo \ co) \cup (co \ eo)) = 1
        \/ Cardinality((es \ cs) \cup (cs \ es)) = 1

\* C12: the expectation of a case is taken from an entry whose observations
\* equal the case's as a set and whose sensor map equals the case's; when such
\* an entry exists it is used (the case is compared with its expected list),
\* and when none exists nothing is expected, also when an entry differs from
\* the case by one observation or by one sensor key only.
C12_MatchOnExactInput ==
    pc = "ran" =>
        LET r == truth_table_result
        IN  IF MatchingEntries # {}
            THEN /\ \E k \in MatchingEntries :
                       r.expected_failure_modes = expected_outcomes[k].expected
                 /\ r.has_surprise <=>
                       (ActualEntries # Range(r.expected_failure_modes))
            ELSE /\ r.expected_failure_modes = <<>>
                 /\ r.unexpected_results = <<>>
                 /\ ~r.has_surprise

\* C12 witness: the case lists its observations in another order than the
\* matching entry, whose expected list is used, while another entry that
\* differs by one sensor key is not.
C12_Witness ==
    /\ pc = "ran"
    /\ \E k \in MatchingEntries :
          /\ expected_outcomes[k].inputs.observations
                 # truth_table_result.inputs.observations
          /\ expected_outcomes[k].expected # <<>>
          /\ truth_table_result.expected_failure_modes = expected_outcomes[k].expected
    /\ \E k \in DOMAIN expected_outcomes :
          /\ k \notin MatchingEntries
          /\ DiffersByOne(expected_outcomes[k], truth_table_result.inputs)

\* ---- generate_test_cases, stated on the arguments of the call
\* the observations fixed to true
FixedTrue ==
    {generate_args.fixed_observations[i].obs :
        i \in {j \in DOMAIN generate_args.fixed_observations :
                  generate_args.fixed_observations[j].present}}

\* the inputs of the returned cases: <<observation set, sensor map>>
CaseInput(test_case) == <<Range(test_case.observations), test_case.sensor_values>>

\* the number of returned cases with the input x
Occurrences(x) == Cardinality({i \in DOMAIN test_cases : CaseInput(test_cases[i]) = x})

\* C13 as stated: with k varied observations, no fixed observation and no
\* varied sensor, generate_test_cases returns exactly 2^k cases, one per
\* subset of the varied observations, for every k >= 0 and whatever
\* observations scan_graph has registered.
C13_PowerSetCompleteness ==
    (/\ pc = "generated"
     /\ generate_args.fixed_observations = <<>>
     /\ generate_args.vary_sensors = <<>>)
    => LET varied == Range(generate_args.vary_observations)
       IN  /\ Len(test_cases) = 2 ^ Len(generate_args.vary_observations)
           /\ {Range(test_cases[i].observations) : i \in DOMAIN test_cases} = SUBSET varied
           /\ \A i, j \in DOMAIN test_cases :
                 i # j => Range(test_cases[i].observations) # Range(test_cases[j].observations)

\* C13 amended: the same for every k >= 1, and for k = 0 when scan_graph has
\* registered no observation; with k = 0 and n registered observations the
\* varied observations default to the registered ones and 2^n cases are
\* returned, one per subset of the registered observations.
C13_PowerSetOfVariedOrRegistered ==
    (/\ pc = "generated"
     /\ generate_args.fixed_observations = <<>>
     /\ generate_args.vary_sensors = <<>>)
    => LET varied == IF generate_args.vary_observations = <<>>
                     THEN tt_observations
                     ELSE Range(generate_args.vary_observations)
       IN  /\ Len(test_cases) = 2 ^ Cardinality(varied)
           /\ {Range(test_cases[i].observations) : i \in DOMAIN test_cases} = SUBSET varied
           /\ \A i, j \in DOMAIN test_cases :
                 i # j => Range(test_cases[i].observations) # Range(test_cases[j].observations)

\* C13 witness: two observations are varied over a universe that holds only
\* one of them, and the four subsets come back.
C13_Witness ==
    /\ pc = "generated"
    /\ generate_args.fixed_observations = <<>>
    /\ generate_args.vary_sensors = <<>>
    /\ Len(generate_args.vary_observations) = 2
    /\ tt_observations = {"o1"}
    /\ Len(test_cases) = 4
    /\ \E i \in DOMAIN test_cases : test_cases[i].observations = <<>>

\* the thresholds scan_graph knows of a sensor
KnownThresholds(sensor_name) ==
    IF sensor_name \in DOMAIN tt_sensor_readings
    THEN Range(tt_sensor_readings[sensor_name]) ELSE {}

\* the choices for a varied sensor: absent, or one of threshold - 0.1,
\* threshold, threshold + 0.1 for a known threshold
Choices(sensor_name) ==
    {[absent |-> TRUE, threshold |-> 0, offset |-> 0]}
    \cup {[absent |-> FALSE, threshold |-> t, offset |-> d] :
             t \in KnownThresholds(sensor_name), d \in {-1, 0, 1}}

\* the Cartesian product of the choices over the varied sensors
SensorAssignments ==
    LET vs == Range(generate_args.vary_sensors)
    IN  {f \in [vs -> UNION {Choices(x) : x \in vs}] : \A x \in vs : f[x] \in Choices(x)}

\* the observation combinations: the subsets of the varied observations (of
\* the registered ones when nothing is varied and nothing fixed)
ObservationCombinations ==
    IF generate_args.vary_observations = <<>> /\ generate_args.fixed_observations = <<>>
    THEN SUBSET tt_observations
    ELSE SUBSET Range(generate_args.vary_observations)

\* the input of the case of a pair: the combination with the fixed
\* observations, the assignment without its absent sensors and with the
\* fixed sensor values
InputOfPair(combo, f) ==
    LET fixed == generate_args.fixed_sensor_values
        given == {x \in DOMAIN f : ~f[x].absent}
    IN  <<combo \cup FixedTrue,
          [x \in given \cup DOMAIN fixed |->
              IF x \in DOMAIN fixed THEN fixed[x]
              ELSE f[x].threshold + f[x].offset]>>

RECURSIVE ProductOfChoices(_)
ProductOfChoices(sensors) ==
    IF sensors = <<>> THEN 1
    ELSE (3 * Cardinality(KnownThresholds(Head(sensors))) + 1) * ProductOfChoices(Tail(sensors))

\* C14: generate_test_cases returns one case per pair of an observation
\* combination and a sensor assignment of the Cartesian product (every input
\* comes back as often as pairs give it, an absent choice leaving the key
\* out), and the number of cases is the number of combinations times the
\* product over the varied sensors of 3 * (number of thresholds) + 1.
C14_CartesianProduct ==
    pc = "generated" =>
        LET pairs == ObservationCombinations \X SensorAssignments
            inputs == {InputOfPair(p[1], p[2]) : p \in pairs}
        IN  /\ {CaseInput(test_cases[i]) : i \in DOMAIN test_cases} = inputs
            /\ \A x \in inputs :
                  Occurrences(x) =
                      Cardinality({p \in pairs : InputOfPair(p[1], p[2]) = x})
            /\ Len(test_cases) = Cardinality(ObservationCombinations)
                                    * ProductOfChoices(generate_args.vary_sensors)

\* C14 witness: two sensors are varied, one with two thresholds and one with
\* one, together with an observation: 2 * 7 * 4 cases, one of them without
\* any sensor key.
C14_Witness ==
    /\ pc = "generated"
    /\ Len(generate_args.vary_sensors) = 2
    /\ Cardinality(KnownThresholds("s1")) = 2
    /\ Cardinality(KnownThresholds("s2")) = 1
    /\ generate_args.fixed_sensor_values = <<>>
    /\ Len(generate_args.vary_observations) = 1
    /\ Len(test_cases) = 56
    /\ \E i \in DOMAIN test_cases : test_cases[i].sensor_values = <<>>

\* C15: every returned case contains every observation fixed to true and maps
\* every fixed sensor to its fixed value, whatever is varied.
C15_FixedInputsInEveryCase ==
    pc = "generated" =>
        \A i \in DOMAIN test_cases :
            /\ FixedTrue \subseteq Range(test_cases[i].observations)
            /\ \A x \in DOMAIN generate_args.fixed_sensor_values :
                  /\ x \in DOMAIN test_cases[i].sensor_values
                  /\ test_cases[i].sensor_values[x] = generate_args.fixed_sensor_values[x]

\* C15 witness: sensor s1 is varied over its thresholds and fixed as well,
\* and an observation is fixed while another is varied.
C15_Witness ==
    /\ pc = "generated"
    /\ "s1" \in Range(generate_args.vary_sensors)
    /\ KnownThresholds("s1") # {}
    /\ "s1" \in DOMAIN generate_args.fixed_sensor_values
    /\ FixedTrue = {"o1"}
    /\ generate_args.vary_observations = <<"o2">>
    /\ Len(test_cases) > 2

C17_BatchSurvivesAFailingCase ==
    raised_at # 0 =>
        \A i \in DOMAIN test_cases :
            i # raised_at =>
                \E k \in DOMAIN truth_table_results :
                    /\ truth_table_results[k].inputs = test_cases[i]
                    /\ k \in {i, IF i < raised_at THEN i ELSE i - 1}

\* the sensor edges the last diagnose call evaluated: those to a candidate
\* whose sensor the input gives a value for
EvaluatedSensorEdges ==
    {e \in evidence : /\ e.kind = "sensor"
                      /\ e.src \in DOMAIN sensor_readings
                      /\ IsCandidate(e.tgt)}

\* C18: diagnose does not return normally when it evaluates a sensor edge
\* whose operator is none of the comparison operators (it fails with an
\* unsupported-operator error); the edge is never silently skipped.
C18_UnknownOperatorFails ==
    pc = "diagnosed" =>
        \A e \in EvaluatedSensorEdges : e.operator = NULL \/ e.operator \in Operators

\* C19: no diagnose call runs over a sensor edge without operator or
\* threshold, such an edge being rejected when the graph is built.
C19_SensorEdgeNeedsOperator ==
    pc = "diagnosed" =>
        \A e \in EvaluatedSensorEdges : e.operator # NULL

\* the names the nodes of the graph bear, as far as a query can tell
SensorNames == {e.src : e \in {x \in evidence : x.kind = "sensor"}}
KnownReadings ==
    [x \in DOMAIN sensor_readings \cap SensorNames |-> sensor_readings[x]]

\* C20: observation names and sensor names of the input that no node bears
\* are inert: diagnose returns the list it returns for the input without
\* them, and none of them is in an evidence list.
C20_UnknownNamesAreInert ==
    pc = "diagnosed" =>
        /\ diagnostic_results
               \in DiagnoseOutputs(observations \cap observation_nodes, KnownReadings)
        /\ \A i \in DOMAIN diagnostic_results :
              /\ diagnostic_results[i].supporting_evidence
                     \subseteq observation_nodes \cup SensorNames
              /\ diagnostic_results[i].contradicting_evidence
                     \subseteq observation_nodes \cup SensorNames

\* C20 witness: the input holds an observation name and a sensor name that
\* no node bears, next to an observation that makes diagnose return a record.
C20_Witness ==
    /\ pc = "diagnosed"
    /\ observations \ observation_nodes # {}
    /\ DOMAIN sensor_readings \ SensorNames # {}
    /\ diagnostic_results # <<>>

\* C21: the candidates grow with the observations: every failure mode that
\* is a candidate for a subset A of the observations of a diagnose or
\* get_test_recommendations call is a candidate for the call's observations.
C21_ObservationMonotonicity ==
    pc \in {"diagnosed", "recommended"} =>
        \A A \in SUBSET observations :
            /\ CandidateFailureModes(A) \subseteq CandidateFailureModes(observations)
            /\ RecommendationCandidates(A) \subseteq RecommendationCandidates(observations)

\* C21 witness: recommendations are asked for two observations; a failure
\* mode that causes only the first is a candidate for the first alone and for
\* both, and the other failure mode is a candidate for both only.
C21_Witness ==
    /\ pc = "recommended"
    /\ observations = {"o1", "o2"}
    /\ RecommendationCandidates({"o1"}) = {"F"}
    /\ RecommendationCandidates(observations) = {"F", "G"}
    /\ \A c \in causes : c.fm = "F" => c.obs = "o1"

\* the evidence sources a recommendation is due for: those outside the input
\* with an evidence edge to a candidate
RecommendableSources ==
    {e.src : e \in {x \in evidence : x.src \notin observations /\ IsCandidate(x.tgt)}}

\* the candidates the source has evidence edges to
HelpsWith(name) ==
    {e.tgt : e \in {x \in evidence : x.src = name /\ IsCandidate(x.tgt)}}

RecommendationsOf(name) ==
    {i \in DOMAIN test_recommendations : test_recommendations[i].name = name}

\* C22: get_test_recommendations returns exactly one record per evidence
\* source outside the input that has an edge to a candidate, with all the
\* candidates the source has edges to in would_help_with, whatever thresholds
\* and strengths the edges carry; no record names an evidence of the input
\* and no would_help_with holds a non-candidate.
C22_OneRecommendationPerSource ==
    pc = "recommended" =>
        /\ \A name \in RecommendableSources :
              /\ Cardinality(RecommendationsOf(name)) = 1
              /\ \A i \in RecommendationsOf(name) :
                    test_recommendations[i].would_help_with = HelpsWith(name)
        /\ \A i \in DOMAIN test_recommendations :
              /\ test_recommendations[i].name \in RecommendableSources
              /\ test_recommendations[i].name \notin observations
              /\ \A fm \in test_recommendations[i].would_help_with : IsCandidate(fm)

\* C23: the records of get_test_recommendations come in non-increasing order
\* of the size of would_help_with.
C23_RankedByCoverage ==
    pc = "recommended" =>
        \A i, j \in DOMAIN test_recommendations :
            i < j => Cardinality(test_recommendations[i].would_help_with)
                        >= Cardinality(test_recommendations[j].would_help_with)

\* C23 witness: a test that helps with both candidates is recommended before
\* a test that helps with one.
C23_Witness ==
    /\ pc = "recommended"
    /\ Len(test_recommendations) = 2
    /\ Cardinality(test_recommendations[1].would_help_with) = 2
    /\ Cardinality(test_recommendations[2].would_help_with) = 1

\* the records of fm in a returned list
RecordsIn(fm, results) ==
    {results[i] : i \in {j \in DOMAIN results : results[j].failure_mode = fm}}

\* the sensor value maps that give the sensors with an edge to fm the values
\* the input gives them
SameReadingsFor(fm) ==
    LET own == {e.src : e \in {x \in evidence : x.kind = "sensor" /\ x.tgt = fm}}
    IN  {r \in SensorReadingMaps :
            /\ DOMAIN r \cap own = DOMAIN sensor_readings \cap own
            /\ \A x \in DOMAIN r \cap own : r[x] = sensor_readings[x]}

\* C24: whether a failure mode is in diagnose's output, and with which
\* record, is decided by the input and by the edges incident to it: its
\* record is the one its own asserted edges give, and it stays the same
\* whatever the sensors without an edge to it read (so when they rule another
\* failure mode out); and when every candidate is ruled out, that is has a
\* contradicting contribution of strength rules_out, the output is empty.
C24_OnlyTheRelevantIsRuledOut ==
    pc = "diagnosed" =>
        /\ \A fm \in FailureModes :
              /\ RecordsIn(fm, diagnostic_results) \subseteq
                     {DiagnosticResult(fm, AssertedEdges(fm), sensor_readings)}
              /\ \A r \in SameReadingsFor(fm) :
                    \A out \in DiagnoseOutputs(observations, r) :
                        RecordsIn(fm, out) = RecordsIn(fm, diagnostic_results)
        /\ (\A fm \in FailureModes :
                IsCandidate(fm) => "rules_out" \in ContradictingStrengths(fm))
            => diagnostic_results = <<>>

\* ---- format_results, stated on the results it was given
\* the cases the output is to render
RenderedCases ==
    LET surprising(r) == r.has_surprise
    IN  IF format_args.only_surprises
        THEN SelectSeq(truth_table_results, surprising) ELSE truth_table_results

\* the observations and sensors that occur in the inputs of the run
VariedObservations ==
    UNION {Range(truth_table_results[i].inputs.observations) : i \in DOMAIN truth_table_results}
VariedSensors ==
    UNION {DOMAIN truth_table_results[i].inputs.sensor_values : i \in DOMAIN truth_table_results}

\* csv, html and table: the columns with the given header, and the row of
\* the k-th rendered case
ColumnsOf(label, name) ==
    {c \in DOMAIN formatted[1] : formatted[1][c] = [label |-> label, name |-> name]}
DataRow(k) == formatted[k + (IF format_args.format = "table" THEN 2 ELSE 1)]

\* a cell shows a list when it renders it whole
ShowsList(cell, entries) == cell.of = entries /\ cell.shown = cell.length

\* csv, html and table: every varied observation and sensor has its own
\* column, which holds the case's value, and the last four cells show the lists
TableShowsCase(k) ==
    LET case == RenderedCases[k]
        row == DataRow(k)
        n == Len(row)
    IN  /\ \A o \in VariedObservations : \E c \in ColumnsOf("Obs", o) :
              row[c].text = IF o \in Range(case.inputs.observations) THEN "Yes" ELSE "No"
        /\ \A x \in VariedSensors : \E c \in ColumnsOf("Sensor", x) :
              row[c].text = IF x \in DOMAIN case.inputs.sensor_values
                            THEN ToString(case.inputs.sensor_values[x]) ELSE "Unknown"
        /\ n >= 4
        /\ ShowsList(row[n - 3], case.diagnosed_failure_modes)
        /\ ShowsList(row[n - 2], case.expected_failure_modes)
        /\ ShowsList(row[n - 1], case.unexpected_results)
        /\ ShowsList(row[n], case.missing_results)

\* text: the case's block lists the observations that are present, gives the
\* sensor values and the diagnosed list, and each other list unless it is empty
TextShowsCase(k) ==
    LET case == RenderedCases[k]
        block == formatted[k]
        has(label, value) == \E i \in DOMAIN block :
                                 block[i].label = label /\ block[i].value = value
    IN  /\ \E i \in DOMAIN block :
              /\ block[i].label = "Observations"
              /\ Range(block[i].value) = Range(case.inputs.observations)
        /\ has("Sensor Values", case.inputs.sensor_values)
        /\ has("Diagnosed Failure Modes", case.diagnosed_failure_modes)
        /\ case.expected_failure_modes # <<>> =>
              has("Expected Failure Modes", case.expected_failure_modes)
        /\ case.unexpected_results # <<>> =>
              has("UNEXPECTED RESULTS", case.unexpected_results)
        /\ case.missing_results # <<>> =>
              has("MISSING RESULTS", case.missing_results)

\* C25: in each format, format_results shows for every rendered case (the
\* surprising ones under only_surprises) the presence of every varied
\* observation and the value of every varied sensor, in csv, html and table
\* as a column of its own, and the whole diagnosed, expected, unexpected and
\* missing lists.
C25_FormatsShowEveryCase ==
    pc = "formatted" =>
        \A k \in DOMAIN RenderedCases :
            IF format_args.format = "text" THEN TextShowsCase(k) ELSE TableShowsCase(k)

\* ---- explain_diagnosis, against the diagnose call made with the same input
\* the names of the explanation records of a polarity
ExplainedNames(polarity) ==
    {explanation_evidence[i].name :
        i \in {j \in DOMAIN explanation_evidence :
                  explanation_evidence[j].for_or_against = polarity}}

\* C26: for a failure mode F of diagnose's output, explain_diagnosis with the
\* same input returns one record per contributing edge (per edge to F whose
\* source the input asserts); the names of its 'for' records are F's
\* supporting_evidence and the names of its 'against' records are F's
\* contradicting_evidence.
C26_ExplanationAgreesWithDiagnosis ==
    (pc = "explained" /\ IsReported(explained_failure_mode)) =>
        /\ Len(explanation_evidence) = Cardinality(AssertedEdges(explained_failure_mode))
        /\ \A i \in RecordsOf(explained_failure_mode) :
              /\ ExplainedNames("for") = diagnostic_results[i].supporting_evidence
              /\ ExplainedNames("against") = diagnostic_results[i].contradicting_evidence

\* ---- explain_diagnosis_text, read line by line
\* the lines that consist of the given words
LinesSaying(words) ==
    {i \in DOMAIN explanation_text :
        Len(explanation_text[i]) = 1 /\ explanation_text[i][1] = words}

\* the lines "- <explanation>"
IsItemLine(i) ==
    /\ i \in DOMAIN explanation_text
    /\ Len(explanation_text[i]) = 2
    /\ explanation_text[i][1] = "-"

\* the explanations listed right after line i
RECURSIVE ItemsAfter(_)
ItemsAfter(i) ==
    IF IsItemLine(i + 1) THEN <<explanation_text[i + 1][2]>> \o ItemsAfter(i + 1) ELSE <<>>

\* the headings of the two sections and of the groups by strength
SectionHeading(polarity) ==
    IF polarity = "for" THEN "Evidence supporting this diagnosis:"
    ELSE "Evidence contradicting this diagnosis:"
GroupHeading(polarity, strength) ==
    CASE polarity = "for" /\ strength = "confirms" -> "Strong confirmations:"
      [] polarity = "for" /\ strength = "suggests" -> "Suggestive evidence:"
      [] polarity = "against" /\ strength = "rules_out" -> "Strong contradictions:"
      [] polarity = "against" /\ strength = "suggests_against" -> "Mild contradictions:"
      [] OTHER -> "no heading"

\* the explanations of the records of a polarity and strength
ExplanationsOf(polarity, strength) ==
    LET in_group(e) == e.for_or_against = polarity /\ e.strength = strength
        group == SelectSeq(explanation_evidence, in_group)
    IN  [i \in DOMAIN group |-> group[i].explanation]

\* C27: explain_diagnosis_text lists every record of explain_diagnosis
\* exactly once, in the section of its polarity under the group of its
\* strength, whichever of the five strengths it has; and it lists the causal
\* path to every input observation the failure mode causes, also when there
\* is no evidence record.
C27_TextListsEveryRecord ==
    pc = "explained" =>
        /\ \A polarity \in {"for", "against"}, strength \in Strengths :
              ExplanationsOf(polarity, strength) # <<>> =>
                  \E s \in LinesSaying(SectionHeading(polarity)),
                     g \in LinesSaying(GroupHeading(polarity, strength)) :
                      /\ s < g
                      /\ ItemsAfter(g) = ExplanationsOf(polarity, strength)
        /\ Cardinality({i \in DOMAIN explanation_text : IsItemLine(i)})
               = Len(explanation_evidence)
        /\ \A c \in causes :
              (c.fm = explained_failure_mode /\ c.obs \in observations) =>
                  \E i \in DOMAIN explanation_text :
                      /\ Len(explanation_text[i]) = 4
                      /\ explanation_text[i] = <<"-", c.fm, "CAUSES", c.obs>>

\* ---- the filter on rules_out
\* the aggregated confidence of fm would be rules_out: a contradicting
\* contribution rules it out, or nothing contradicts and rules_out is the
\* strongest of its supporting strengths
WouldBeRuledOut(fm) ==
    \/ "rules_out" \in ContradictingStrengths(fm)
    \/ /\ ContradictingContributions(fm) = {}
       /\ "rules_out" \in SupportingStrengths(fm)
       /\ SupportingStrengths(fm) \subseteq {"rules_out", "inconclusive"}

\* C28: no record diagnose returns has confidence rules_out, and a failure
\* mode whose aggregated confidence would be rules_out, through a
\* contradicting rules_out contribution or because rules_out is the strongest
\* of its supporting strengths, is absent from the output.
C28_NoRecordIsRuledOut ==
    pc = "diagnosed" =>
        /\ \A i \in DOMAIN diagnostic_results :
              diagnostic_results[i].confidence # "rules_out"
        /\ \A fm \in FailureModes : WouldBeRuledOut(fm) => ~IsReported(fm)

\* ---- several entries for one input
\* the matching entry registered last
LastMatchingEntry == CHOOSE k \in MatchingEntries : \A m \in MatchingEntries : m <= k

\* C29: when several registered entries match the case, run_test_case
\* compares the actual diagnoses with the expected list of the entry
\* registered last and with no other: expected is that list, unexpected and
\* missing are the two differences with it, and has_surprise says whether
\* they differ, whatever was registered for the input before.
C29_LastRegisteredEntryWins ==
    (pc = "ran" /\ MatchingEntries # {}) =>
        LET r == truth_table_result
            expected == expected_outcomes[LastMatchingEntry].expected
        IN  /\ r.expected_failure_modes = expected
            /\ Range(r.unexpected_results) = ActualEntries \ Range(expected)
            /\ Range(r.missing_results) = Range(expected) \ ActualEntries
            /\ r.has_surprise <=> (ActualEntries # Range(expected))

\* C29 witness: an earlier entry for the input expects what diagnose
\* returns, a later one expects something else, and the run is a surprise.
C29_Witness ==
    /\ pc = "ran"
    /\ \E k \in MatchingEntries :
          /\ k < LastMatchingEntry
          /\ Range(expected_outcomes[k].expected) = ActualEntries
          /\ expected_outcomes[k].expected # <<>>
    /\ truth_table_result.has_surprise
    /\ truth_table_result.missing_results # <<>>
    /\ truth_table_result.unexpected_results # <<>>

\* ---- the generated cases, compared by input
\* C30: generate_test_cases returns no two cases with the same input (the
\* same observation set and the same sensor-value map), whatever is varied
\* and fixed, also for a sensor with several thresholds and for a sensor that
\* is both varied and fixed.
C30_NoDuplicateInputs ==
    pc = "generated" =>
        \A i, j \in DOMAIN test_cases :
            i # j => CaseInput(test_cases[i]) # CaseInput(test_cases[j])

====
